---- MODULE Spec2Model ----
(***************************************************************************)
(* A model of src/index.ts: the IndexedDBRequestWrapper adapter (request   *)
(* events -> promise), IndexedDBWrapper.new (the session builder with its  *)
(* add / getAll operations) and mockImpl (the in-memory backend whose      *)
(* Proxy `set` trap fires a handler at the moment it is assigned).         *)
(*                                                                         *)
(* Promise reactions are jobs of one FIFO microtask queue (`jobs`).  A     *)
(* storage engine that is not the mock delivers its events as tasks of     *)
(* their own, which start only when the microtask queue is empty; the      *)
(* reaction of Promise.all to a member settled by an event runs in the     *)
(* microtask checkpoint that ends the event's task.                        *)
(***************************************************************************)
EXTENDS Integers, Sequences, FiniteSets

\* ------------------------------------------------------------------ bounds
MaxBatch == 2        \* longest `iterable` handed to add
MaxCalls == 2        \* add / getAll calls made in all
MaxItems == 2        \* entries handed to one backend's objectStore.add

Backends == {"b1", "b2"}
Sessions == {"s1", "s2"}
\* new() is called for s1 first: the sessions are interchangeable
Earlier(s) == IF s = "s2" THEN {"s1"} ELSE {}

\* two task titles (`Walk dog #${random}` for two values of random)
Titles == {1, 2}
Hours == {19}
\* the entries: the key field of the source's items and one more field
Entry == [taskTitle : Titles, hours : Hours]
KeyNames == {"taskTitle", "hours"}

RECURSIVE SeqsUpTo(_, _)
SeqsUpTo(S, n) ==
    IF n = 0 THEN {<<>>}
    ELSE LET shorter == SeqsUpTo(S, n - 1)
         IN  shorter \cup {Append(xs, e) : xs \in {ys \in shorter : Len(ys) = n - 1}, e \in S}

Batches == SeqsUpTo(Entry, MaxBatch)

\* ------------------------------------------------------------------ values
Undefined == [t |-> "undefined"]
KeyVal(n) == [t |-> "key", v |-> n]
\* the mock's `items` array object itself (an alias, not a copy)
ItemsRef(b) == [t |-> "ref", b |-> b]
\* a fresh array
SeqVal(xs) == [t |-> "seq", v |-> xs]
\* { error: `We messed up: ${error}` }
MockError(name) == [t |-> "error", error |-> name]
\* an error event of an engine that is not the mock
ErrorEvent(op, s, i) == [t |-> "event", op |-> op, s |-> s, i |-> i]
Thrown(by) == [t |-> "thrown", by |-> by]
DbHandle(b) == [t |-> "db", b |-> b]
SessionVal(s) == [t |-> "session", s |-> s]

\* ---------------------------------------------------------------- promises
PendingPromise == [state |-> "pending", value |-> Undefined]
\* resolve / reject of a promise that is already settled do nothing
Resolve(p, v) == IF p.state = "pending" THEN [state |-> "resolved", value |-> v] ELSE p
Reject(p, v) == IF p.state = "pending" THEN [state |-> "rejected", value |-> v] ELSE p
Settled(p) == p.state # "pending"

VARIABLES cfg, items, dbState, nw, call, prev, jobs, issued, nGetAll
vars == <<cfg, items, dbState, nw, call, prev, jobs, issued, nGetAll>>

\* --------------------------------------------------------- mock: set trap
\* a slip: the error handler is called whatever the toggle says
setAlwaysError(mockSetFuncOpts, name) ==
    \/ name = "onsuccess" /\ mockSetFuncOpts.succeed
    \/ name = "onerror"

\* a slip: both handlers are called, the toggle is not looked at
setAnyHandler(mockSetFuncOpts, name) == name \in {"onsuccess", "onerror"}

\* the Proxy `set` trap of a mock request: does assigning `name` call the
\* assigned function?
set(mockSetFuncOpts, name) ==
    \/ name = "onsuccess" /\ mockSetFuncOpts.succeed
    \/ name = "onerror" /\ ~mockSetFuncOpts.succeed

\* ------------------------------------------------------------- the adapter
\* a request object; `isProxy` requests are the mock's, whose handlers run
\* when they are assigned and are never stored
NewRequest(op, isProxy, succeed, result) ==
    [op |-> op, isProxy |-> isProxy, succeed |-> succeed, isOpen |-> (op = "open" /\ ~isProxy),
     result |-> result, handlers |-> {}, p |-> PendingPromise,
     nSuccess |-> 0, nError |-> 0, nUpgrade |-> 0]

\* a slip: the error handler does not reject
onerrorNoReject(req, event) == [req EXCEPT !.nError = @ + 1]

\* idbRequest.onerror: reject(event)
onerror(req, event) == [req EXCEPT !.p = Reject(@, event), !.nError = @ + 1]
\* idbRequest.onsuccess: resolve(idbRequest.result)
onsuccess(req) == [req EXCEPT !.p = Resolve(@, req.result), !.nSuccess = @ + 1]

\* idbRequest.<name> = handler
AssignHandler(req, name) ==
    IF req.isProxy
    THEN IF set([succeed |-> req.succeed, error |-> req.op], name)
         THEN IF name = "onerror" THEN onerror(req, MockError(req.op)) ELSE onsuccess(req)
         ELSE req
    ELSE [req EXCEPT !.handlers = @ \cup {name}]

\* a slip: the instanceof IDBOpenDBRequest guard is missing
IndexedDBRequestWrapperNoGuard(idbRequest) ==
    LET r1 == AssignHandler(idbRequest, "onerror")
        r2 == AssignHandler(r1, "onsuccess")
    IN  AssignHandler(r2, "onupgradeneeded")

\* the promise executor: onerror, then onsuccess, then (open requests of a
\* real engine only) onupgradeneeded
IndexedDBRequestWrapper(idbRequest) ==
    LET r1 == AssignHandler(idbRequest, "onerror")
        r2 == AssignHandler(r1, "onsuccess")
    IN  IF r2.isOpen THEN AssignHandler(r2, "onupgradeneeded") ELSE r2

Done(req) == req.nSuccess + req.nError > 0

\* -------------------------------------------------------- mock: operations
IsMock(b) == cfg[b].kind = "mock"

\* a slip: the open request is built with the add toggle
openWithAddToggle(b) ==
    IF IsMock(b) THEN NewRequest("open", TRUE, cfg[b].shouldAdd, DbHandle(b))
    ELSE NewRequest("open", FALSE, FALSE, Undefined)

\* mockImpl.open(): a Proxy over { result: { transaction } }
open(b) ==
    IF IsMock(b) THEN NewRequest("open", TRUE, cfg[b].shouldOpen, DbHandle(b))
    ELSE NewRequest("open", FALSE, FALSE, Undefined)

\* mockImpl.add(item): the request part, { result: item[key] }
add(b, item) ==
    IF IsMock(b) THEN NewRequest("add", TRUE, cfg[b].shouldAdd, KeyVal(item[cfg[b].key]))
    ELSE NewRequest("add", FALSE, FALSE, Undefined)

Reverse(xs) == [i \in DOMAIN xs |-> xs[Len(xs) + 1 - i]]

\* a slip: items.unshift(item) in place of items.push(item)
unshift(b, batch) == Reverse(batch) \o items[b]

\* a slip: the append is skipped when the add is configured to fail
pushIfShouldAdd(b, batch) == IF cfg[b].shouldAdd THEN items[b] \o batch ELSE items[b]

\* a slip: items = [item] in place of items.push(item)
pushReplaces(b, batch) == IF batch = <<>> THEN items[b] ELSE <<batch[Len(batch)]>>

\* mockImpl.add(item): items.push(item), for every item of a batch in turn
push(b, batch) == items[b] \o batch

\* a slip: the getAll request is built with the add toggle
getAllWithAddToggle(b) ==
    IF IsMock(b) THEN NewRequest("getAll", TRUE, cfg[b].shouldAdd, ItemsRef(b))
    ELSE NewRequest("getAll", FALSE, FALSE, Undefined)

\* a slip: the getAll request carries no result
getAllNoResult(b) ==
    IF IsMock(b) THEN NewRequest("getAll", TRUE, cfg[b].shouldGetAll, Undefined)
    ELSE NewRequest("getAll", FALSE, FALSE, Undefined)

\* a slip: one items array for every mockImpl instance (the last created)
getAllSharedItems(b) ==
    IF IsMock(b) THEN NewRequest("getAll", TRUE, cfg[b].shouldGetAll, ItemsRef("b2"))
    ELSE NewRequest("getAll", FALSE, FALSE, Undefined)

\* mockImpl.getAll(): { result: items }
getAll(b) ==
    IF IsMock(b) THEN NewRequest("getAll", TRUE, cfg[b].shouldGetAll, ItemsRef(b))
    ELSE NewRequest("getAll", FALSE, FALSE, Undefined)

\* what an array value holds now
Deref(v) == IF v.t = "ref" THEN items[v.b] ELSE IF v.t = "seq" THEN v.v ELSE <<>>

\* ------------------------------------------------------------ engine store
\* an engine that is not the mock keeps its records in key order
RECURSIVE InsertByKey(_, _)
InsertByKey(xs, e) ==
    IF xs = <<>> THEN <<e>>
    ELSE IF e.taskTitle < Head(xs).taskTitle THEN <<e>> \o xs
    ELSE <<Head(xs)>> \o InsertByKey(Tail(xs), e)

StoredKeys(b) == {items[b][i].taskTitle : i \in DOMAIN items[b]}

\* ------------------------------------------------------------------- state
\* a session's call in flight: its requests, Promise.all's bookkeeping, and
\* the order its requests completed in
NoCall ==
    [op |-> "none", entries |-> <<>>, reqs |-> <<>>, values |-> <<>>, remaining |-> 0,
     all |-> PendingPromise, order |-> <<>>]

RECURSIVE CompletedAtIssue(_, _)
\* the requests that were complete when the call returned, in index order
CompletedAtIssue(reqs, i) ==
    IF i > Len(reqs) THEN <<>>
    ELSE (IF reqs[i].nSuccess + reqs[i].nError > 0 THEN <<i>> ELSE <<>>)
         \o CompletedAtIssue(reqs, i + 1)

\* what the client keeps of its previous call
Summary(c) ==
    [op |-> c.op, entries |-> c.entries,
     promise |-> IF c.op = "getAll" THEN c.reqs[1].p ELSE c.all]

\* the promise a call returned: Promise.all's for add, the adapter's for getAll
CallPromise(c) ==
    IF c.op = "getAll" THEN c.reqs[1].p ELSE c.all

MockConfigs ==
    [kind : {"mock"}, shouldAdd : BOOLEAN, shouldGetAll : BOOLEAN, shouldOpen : BOOLEAN,
     key : KeyNames]
EngineConfigs ==
    [kind : {"engine"}, shouldAdd : {TRUE}, shouldGetAll : {TRUE}, shouldOpen : {TRUE},
     key : {"taskTitle"}]

\* mockImpl() without options
defaultMockOptions ==
    [kind |-> "mock", shouldAdd |-> TRUE, shouldGetAll |-> TRUE, shouldOpen |-> TRUE,
     key |-> "taskTitle"]

\* b1 is any backend; b2 is mockImpl() with the default options
Init ==
    /\ cfg \in [Backends -> MockConfigs \cup EngineConfigs]
    /\ cfg["b2"] = defaultMockOptions
    /\ items = [b \in Backends |-> <<>>]
    /\ dbState \in [Backends -> {"absent", "empty", "ready"}]
    /\ \A b \in Backends : IsMock(b) => dbState[b] = "ready"
    /\ nw = [s \in Sessions |->
               [status |-> "idle", impl |-> "b1",
                request |-> NewRequest("open", FALSE, FALSE, Undefined),
                promise |-> PendingPromise, opens |-> 0, ctorCalls |-> 0, calls |-> 0,
                thrown |-> Undefined, settles |-> 0]]
    /\ call = [s \in Sessions |-> NoCall]
    /\ prev = [s \in Sessions |-> Summary(NoCall)]
    /\ jobs = <<>>
    /\ issued = [b \in Backends |-> <<>>]
    /\ nGetAll = [b \in Backends |-> 0]

\* ------------------------------------------------------------------ jobs
Job(type, s, i, err) == [type |-> type, s |-> s, i |-> i, err |-> err]

\* wrapped.then(...).catch(...): the reaction a settled `wrapped` queues
ThenJobs(s, p) ==
    IF p.state = "resolved" THEN <<Job("then", s, 0, Undefined)>>
    ELSE IF p.state = "rejected" THEN <<Job("catch", s, 0, p.value)>>
    ELSE <<>>

RECURSIVE AllJobs(_, _, _)
\* Promise.all's reactions to the members from index i on that are settled
AllJobs(s, reqs, i) ==
    IF i > Len(reqs) THEN <<>>
    ELSE (IF Settled(reqs[i].p) THEN <<Job("all", s, i, Undefined)>> ELSE <<>>)
         \o AllJobs(s, reqs, i + 1)

\* a session's client makes one call at a time
Quiescent(s) ==
    /\ \A i \in DOMAIN call[s].reqs : Done(call[s].reqs[i])
    /\ \A j \in DOMAIN jobs : jobs[j].s # s

RECURSIVE CallsOf(_)
CallsOf(S) ==
    IF S = {} THEN 0
    ELSE LET s == CHOOSE x \in S : TRUE IN nw[s].calls + CallsOf(S \ {s})
Calls == CallsOf(Sessions)

\* ------------------------------------------------------ IndexedDBWrapper.new
\* new(databaseName, objectStoreName, objectStoreConstructor, impl); every
\* caller passes an objectStoreConstructor, and one caller (realWrapper)
\* uses an engine that is not a mock
New(s, b) ==
    /\ nw[s].status = "idle"
    /\ \A e \in Earlier(s) : nw[e].status = "called"
    /\ ~IsMock(b) => \A t \in Sessions : ~(nw[t].status = "called" /\ nw[t].impl = b)
    /\ LET wrapped == IndexedDBRequestWrapper(open(b))
       IN  /\ nw' = [nw EXCEPT ![s] = [@ EXCEPT !.status = "called", !.impl = b,
                                                !.request = wrapped, !.opens = @ + 1]]
           /\ jobs' = jobs \o ThenJobs(s, wrapped.p)
    /\ UNCHANGED <<cfg, items, dbState, call, prev, issued, nGetAll>>

\* db.transaction([objectStoreName], 'readwrite'): an engine throws when the
\* database has no such object store; the mock's never throws
TransactionThrows(b) == ~IsMock(b) /\ dbState[b] # "ready"

\* the .then callback of `wrapped`
Then(s, objectStoreThrows) ==
    /\ jobs # <<>>
    /\ Head(jobs) = Job("then", s, 0, Undefined)
    /\ LET b == nw[s].request.p.value.b
       IN  /\ objectStoreThrows => ~IsMock(b) /\ ~TransactionThrows(b)
           /\ IF TransactionThrows(b)
              THEN /\ jobs' = Tail(jobs) \o <<Job("catch", s, 0, Thrown("transaction"))>>
                   /\ nw' = [nw EXCEPT ![s].thrown = Thrown("transaction")]
              ELSE IF objectStoreThrows
              THEN /\ jobs' = Tail(jobs) \o <<Job("catch", s, 0, Thrown("objectStore"))>>
                   /\ nw' = [nw EXCEPT ![s].thrown = Thrown("objectStore")]
              ELSE /\ jobs' = Tail(jobs)
                   /\ nw' = [nw EXCEPT ![s].promise = Resolve(@, SessionVal(s)),
                                       ![s].settles = @ + 1]
    /\ UNCHANGED <<cfg, items, dbState, call, prev, issued, nGetAll>>

\* a slip: the catch handler swallows the error
CatchSwallow(s) ==
    /\ jobs # <<>>
    /\ Head(jobs).type = "catch"
    /\ Head(jobs).s = s
    /\ jobs' = Tail(jobs)
    /\ UNCHANGED <<cfg, items, dbState, nw, call, prev, issued, nGetAll>>

\* .catch((error) => reject(error))
Catch(s) ==
    /\ jobs # <<>>
    /\ Head(jobs).type = "catch"
    /\ Head(jobs).s = s
    /\ nw' = [nw EXCEPT ![s].promise = Reject(@, Head(jobs).err), ![s].settles = @ + 1]
    /\ jobs' = Tail(jobs)
    /\ UNCHANGED <<cfg, items, dbState, call, prev, issued, nGetAll>>

\* ------------------------------------------------------------ session.add
HasSession(s) == nw[s].promise.state = "resolved"

\* a slip: a join that waits for a first member also when there is none
PromiseAllWaits(reqs) ==
    [values |-> [i \in DOMAIN reqs |-> Undefined], remaining |-> Len(reqs),
     all |-> PendingPromise]

\* Promise.all(promises), before any reaction has run
PromiseAll(reqs) ==
    [values |-> [i \in DOMAIN reqs |-> Undefined], remaining |-> Len(reqs),
     all |-> IF reqs = <<>> THEN Resolve(PendingPromise, SeqVal(<<>>)) ELSE PendingPromise]

\* add(iterable)
Add(s, iterable) ==
    /\ HasSession(s)
    /\ Quiescent(s)
    /\ Calls < MaxCalls
    /\ LET b == nw[s].impl
           reqs == [i \in DOMAIN iterable |-> IndexedDBRequestWrapper(add(b, iterable[i]))]
           join == PromiseAll(reqs)
       IN  /\ Len(issued[b]) + Len(iterable) <= MaxItems
           /\ issued' = [issued EXCEPT ![b] = @ \o iterable]
           /\ items' = [items EXCEPT ![b] = IF IsMock(b) THEN push(b, iterable) ELSE @]
           /\ call' = [call EXCEPT ![s] =
                         [op |-> "add", entries |-> iterable, reqs |-> reqs,
                          values |-> join.values, remaining |-> join.remaining,
                          all |-> join.all, order |-> CompletedAtIssue(reqs, 1)]]
           /\ jobs' = jobs \o AllJobs(s, reqs, 1)
    /\ prev' = [prev EXCEPT ![s] = Summary(call[s])]
    /\ nw' = [nw EXCEPT ![s].calls = @ + 1]
    /\ UNCHANGED <<cfg, dbState, nGetAll>>

\* a slip: the results are kept in the order the requests completed in
AllReactionInArrivalOrder(c, i) ==
    LET p == c.reqs[i].p
        values == [c.values EXCEPT ![Len(c.reqs) - c.remaining + 1] = p.value]
    IN  IF p.state = "resolved"
        THEN [c EXCEPT !.values = values, !.remaining = @ - 1,
                       !.all = IF c.remaining = 1 THEN Resolve(@, SeqVal(values)) ELSE @]
        ELSE [c EXCEPT !.all = Reject(@, p.value)]

\* a slip: a rejected member is ignored (no fail-fast)
AllReactionNoReject(c, i) ==
    LET p == c.reqs[i].p
        values == [c.values EXCEPT ![i] = p.value]
    IN  IF p.state = "resolved"
        THEN [c EXCEPT !.values = values, !.remaining = @ - 1,
                       !.all = IF c.remaining = 1 THEN Resolve(@, SeqVal(values)) ELSE @]
        ELSE c

\* a slip: the batch resolves on the first member that succeeds
AllReactionResolvesEarly(c, i) ==
    LET p == c.reqs[i].p
        values == [c.values EXCEPT ![i] = p.value]
    IN  IF p.state = "resolved"
        THEN [c EXCEPT !.values = values, !.remaining = @ - 1,
                       !.all = Resolve(@, SeqVal(values))]
        ELSE [c EXCEPT !.all = Reject(@, p.value)]

\* a slip: the last member is looked for one reaction too late
AllReactionOffByOne(c, i) ==
    LET p == c.reqs[i].p
        values == [c.values EXCEPT ![i] = p.value]
    IN  IF p.state = "resolved"
        THEN [c EXCEPT !.values = values, !.remaining = @ - 1,
                       !.all = IF c.remaining = 0 THEN Resolve(@, SeqVal(values)) ELSE @]
        ELSE [c EXCEPT !.all = Reject(@, p.value)]

\* one reaction of Promise.all: member i resolved (keep its value, resolve
\* when it was the last one) or rejected (reject the batch)
AllReaction(c, i) ==
    LET p == c.reqs[i].p
        values == [c.values EXCEPT ![i] = p.value]
    IN  IF p.state = "resolved"
        THEN [c EXCEPT !.values = values, !.remaining = @ - 1,
                       !.all = IF c.remaining = 1 THEN Resolve(@, SeqVal(values)) ELSE @]
        ELSE [c EXCEPT !.all = Reject(@, p.value)]

All(s, i) ==
    /\ jobs # <<>>
    /\ Head(jobs) = Job("all", s, i, Undefined)
    /\ call' = [call EXCEPT ![s] = AllReaction(@, i)]
    /\ jobs' = Tail(jobs)
    /\ UNCHANGED <<cfg, items, dbState, nw, prev, issued, nGetAll>>

\* ---------------------------------------------------------- session.getAll
GetAll(s) ==
    /\ HasSession(s)
    /\ Quiescent(s)
    /\ Calls < MaxCalls
    /\ LET b == nw[s].impl
           reqs == <<IndexedDBRequestWrapper(getAll(b))>>
       IN  /\ call' = [call EXCEPT ![s] =
                         [op |-> "getAll", entries |-> <<>>, reqs |-> reqs,
                          values |-> <<>>, remaining |-> 0, all |-> PendingPromise,
                          order |-> CompletedAtIssue(reqs, 1)]]
           /\ nGetAll' = [nGetAll EXCEPT ![b] = @ + 1]
    /\ prev' = [prev EXCEPT ![s] = Summary(call[s])]
    /\ nw' = [nw EXCEPT ![s].calls = @ + 1]
    /\ UNCHANGED <<cfg, items, dbState, jobs, issued>>

\* ------------------------------------------------- events of an engine
\* An engine that is not the mock fires a request's events later, each as a
\* task of its own: upgradeneeded (open requests on an absent database),
\* then exactly one of success and error.
Fires(req, name) == ~req.isProxy /\ ~Done(req) /\ name \in req.handlers

\* a slip: the upgrade-needed handler also resolves with the database
UpgradeNeededResolves(s) ==
    /\ jobs = <<>>
    /\ nw[s].status = "called"
    /\ Fires(nw[s].request, "onupgradeneeded")
    /\ nw[s].request.nUpgrade = 0
    /\ LET b == nw[s].impl
           req == [nw[s].request EXCEPT !.result = DbHandle(b), !.nUpgrade = @ + 1,
                                        !.p = Resolve(@, DbHandle(b))]
       IN  /\ dbState[b] = "absent"
           /\ dbState' = [dbState EXCEPT ![b] = "ready"]
           /\ nw' = [nw EXCEPT ![s] = [@ EXCEPT !.request = req, !.ctorCalls = @ + 1]]
           /\ jobs' = ThenJobs(s, req.p)
    /\ UNCHANGED <<cfg, items, call, prev, issued, nGetAll>>

\* idbRequest.onupgradeneeded: objectStoreConstructor(db), which creates
\* the object store
UpgradeNeeded(s) ==
    /\ jobs = <<>>
    /\ nw[s].status = "called"
    /\ Fires(nw[s].request, "onupgradeneeded")
    /\ nw[s].request.nUpgrade = 0
    /\ LET b == nw[s].impl
       IN  /\ dbState[b] = "absent"
           /\ dbState' = [dbState EXCEPT ![b] = "ready"]
           /\ nw' = [nw EXCEPT ![s] =
                       [@ EXCEPT !.request = [@ EXCEPT !.result = DbHandle(b), !.nUpgrade = @ + 1],
                                 !.ctorCalls = @ + 1]]
    /\ UNCHANGED <<cfg, items, call, prev, jobs, issued, nGetAll>>

\* the open request's success event
OpenSuccess(s) ==
    /\ jobs = <<>>
    /\ nw[s].status = "called"
    /\ Fires(nw[s].request, "onsuccess")
    /\ LET b == nw[s].impl
           req == onsuccess([nw[s].request EXCEPT !.result = DbHandle(b)])
       IN  /\ dbState[b] # "absent"
           /\ nw' = [nw EXCEPT ![s].request = req]
           /\ jobs' = ThenJobs(s, req.p)
    /\ UNCHANGED <<cfg, items, dbState, call, prev, issued, nGetAll>>

\* the open request's error event; a failed upgrade leaves no database
OpenError(s) ==
    /\ jobs = <<>>
    /\ nw[s].status = "called"
    /\ Fires(nw[s].request, "onerror")
    /\ LET b == nw[s].impl
           req == onerror(nw[s].request, ErrorEvent("open", s, 0))
       IN  /\ nw' = [nw EXCEPT ![s].request = req]
           /\ jobs' = ThenJobs(s, req.p)
           /\ dbState' = [dbState EXCEPT ![b] = IF nw[s].request.nUpgrade > 0 THEN "absent" ELSE @]
    /\ UNCHANGED <<cfg, items, call, prev, issued, nGetAll>>

\* the microtask checkpoint that ends an event's task: for an insert,
\* Promise.all's reaction to the member just settled; a getAll promise is
\* the caller's own
Checkpoint(c, i) == IF c.op = "add" THEN AllReaction(c, i) ELSE c

\* the success event of the i-th request of the session's call
Success(s, i) ==
    /\ jobs = <<>>
    /\ i \in DOMAIN call[s].reqs
    /\ Fires(call[s].reqs[i], "onsuccess")
    /\ LET b == nw[s].impl
           item == call[s].entries[i]
           result == IF call[s].op = "add" THEN KeyVal(item.taskTitle) ELSE SeqVal(items[b])
           c == [call[s] EXCEPT !.reqs[i] = onsuccess([@ EXCEPT !.result = result]),
                                !.order = Append(@, i)]
       IN  /\ call[s].op = "add" => item.taskTitle \notin StoredKeys(b)
           /\ items' = [items EXCEPT ![b] = IF call[s].op = "add" THEN InsertByKey(@, item) ELSE @]
           /\ call' = [call EXCEPT ![s] = Checkpoint(c, i)]
    /\ UNCHANGED <<cfg, dbState, nw, prev, jobs, issued, nGetAll>>

\* the error event of the i-th request of the session's call
Error(s, i) ==
    /\ jobs = <<>>
    /\ i \in DOMAIN call[s].reqs
    /\ Fires(call[s].reqs[i], "onerror")
    /\ LET c == [call[s] EXCEPT !.reqs[i] = onerror(@, ErrorEvent(call[s].op, s, i)),
                                !.order = Append(@, i)]
       IN  call' = [call EXCEPT ![s] = Checkpoint(c, i)]
    /\ UNCHANGED <<cfg, items, dbState, nw, prev, jobs, issued, nGetAll>>

\* ----------------------------------------------------------- specification
Next ==
    \/ \E s \in Sessions, b \in Backends : New(s, b)
    \/ \E s \in Sessions, objectStoreThrows \in BOOLEAN : Then(s, objectStoreThrows)
    \/ \E s \in Sessions : Catch(s)
    \/ \E s \in Sessions, iterable \in Batches : Add(s, iterable)
    \/ \E s \in Sessions, i \in 1..MaxBatch : All(s, i)
    \/ \E s \in Sessions : GetAll(s)
    \/ \E s \in Sessions : UpgradeNeeded(s)
    \/ \E s \in Sessions : OpenSuccess(s)
    \/ \E s \in Sessions : OpenError(s)
    \/ \E s \in Sessions, i \in 1..MaxBatch : Success(s, i)
    \/ \E s \in Sessions, i \in 1..MaxBatch : Error(s, i)

Spec == Init /\ [][Next]_vars

\* a queued reaction runs: the job queue is emptied before the next task
RunJob ==
    \/ \E s \in Sessions, objectStoreThrows \in BOOLEAN : Then(s, objectStoreThrows)
    \/ \E s \in Sessions : Catch(s)
    \/ \E s \in Sessions, i \in 1..MaxBatch : All(s, i)

\* the program with its job queue always drained; nothing makes a client
\* call or an engine answer
FairSpec == Spec /\ WF_vars(RunJob)

\* ================================================================== claims
B(s) == nw[s].impl
HasJobs(s) == \E j \in DOMAIN jobs : jobs[j].s = s
IsArray(v) == v.t \in {"ref", "seq"}
AllSucceed(b) == IsMock(b) /\ cfg[b].shouldOpen /\ cfg[b].shouldAdd /\ cfg[b].shouldGetAll
DistinctKeys(b, xs) ==
    \A i, j \in DOMAIN xs : i # j => xs[i][cfg[b].key] # xs[j][cfg[b].key]
\* the results the mock reports for a batch: item[key] of each entry
Keys(b, xs) == [i \in DOMAIN xs |-> KeyVal(xs[i][cfg[b].key])]

\* C1: on a mock backend whose toggles all succeed and that has seen no other
\* insert, a getAll() that follows add(entries) on the same session, entries
\* having pairwise distinct primary keys, resolves with exactly those
\* entries, in the order they were passed to add.
C1_AddThenGetAll ==
    \A s \in Sessions :
        ( /\ AllSucceed(B(s))
          /\ call[s].op = "getAll"
          /\ prev[s].op = "add"
          /\ issued[B(s)] = prev[s].entries
          /\ DistinctKeys(B(s), prev[s].entries) )
        => /\ CallPromise(call[s]).state = "resolved"
           /\ IsArray(CallPromise(call[s]).value)
           /\ Deref(CallPromise(call[s]).value) = prev[s].entries

C1_Witness ==
    \E s \in Sessions :
        /\ AllSucceed(B(s))
        /\ call[s].op = "getAll"
        /\ prev[s].op = "add"
        /\ Len(prev[s].entries) = 2
        /\ issued[B(s)] = prev[s].entries
        /\ DistinctKeys(B(s), prev[s].entries)
        /\ CallPromise(call[s]).state = "resolved"

\* C2: an add(entries) promise is resolved only when every insert request of
\* the batch has succeeded, and then with one result per entry, the i-th
\* being the result of the i-th issued request (the i-th entry's primary
\* key), whatever order the requests completed in; once every member has
\* succeeded and the reactions have run, it is resolved.
C2_AddResolvesInIssueOrder ==
    \A s \in Sessions :
        call[s].op = "add" =>
            LET c == call[s]
            IN  /\ c.all.state = "resolved" =>
                    /\ \A i \in DOMAIN c.reqs :
                           c.reqs[i].nSuccess = 1 /\ c.reqs[i].p.state = "resolved"
                    /\ c.all.value = SeqVal([i \in DOMAIN c.entries |-> c.reqs[i].result])
                    /\ c.all.value = SeqVal(Keys(B(s), c.entries))
                /\ ( (\A i \in DOMAIN c.reqs : c.reqs[i].p.state = "resolved") /\ ~HasJobs(s) )
                   => c.all.state = "resolved"

\* a batch of two whose second request completed first, resolved
C2_Witness ==
    \E s \in Sessions :
        /\ call[s].op = "add"
        /\ call[s].order = <<2, 1>>
        /\ call[s].entries[1] # call[s].entries[2]
        /\ call[s].all.state = "resolved"

\* the first request of the call that emitted an error, 0 when none did
RECURSIVE FirstError(_, _)
FirstError(c, k) ==
    IF k > Len(c.order) THEN 0
    ELSE IF c.reqs[c.order[k]].nError > 0 THEN c.order[k]
    ELSE FirstError(c, k + 1)

\* entries occurs in xs as one contiguous run
Contains(xs, entries) ==
    \E k \in 0..Len(xs) :
        k + Len(entries) <= Len(xs) /\ SubSeq(xs, k + 1, k + Len(entries)) = entries

\* C3: add issues one insert request per entry, in input order; once the
\* reaction to the first member error has run the batch promise is rejected
\* with that request's error payload, whether or not siblings are still
\* pending; and the effect of every issued insert stays: the mock's sequence
\* keeps the whole batch, an engine's store keeps every entry whose insert
\* succeeded.
C3_AddFailsFast ==
    \A s \in Sessions :
        call[s].op = "add" =>
            LET c == call[s]
                f == FirstError(c, 1)
            IN  /\ Len(c.reqs) = Len(c.entries)
                /\ \A i \in DOMAIN c.reqs : c.reqs[i].op = "add"
                /\ Contains(issued[B(s)], c.entries)
                /\ (f # 0 /\ \A j \in DOMAIN jobs : jobs[j] # Job("all", s, f, Undefined))
                   => /\ c.all.state = "rejected"
                      /\ c.all.value = c.reqs[f].p.value
                      /\ c.all.value \in {MockError("add"), ErrorEvent("add", s, f)}
                /\ IsMock(B(s)) => Contains(items[B(s)], c.entries)
                /\ ~IsMock(B(s)) =>
                       \A i \in DOMAIN c.reqs :
                           c.reqs[i].nSuccess > 0 =>
                               \E k \in DOMAIN items[B(s)] : items[B(s)][k] = c.entries[i]

\* a batch rejected by its second request's error while the first is pending
C3_Witness ==
    \E s \in Sessions :
        /\ call[s].op = "add"
        /\ Len(call[s].reqs) = 2
        /\ call[s].order = <<2>>
        /\ ~Done(call[s].reqs[1])
        /\ call[s].all = [state |-> "rejected", value |-> ErrorEvent("add", s, 2)]

\* what the adapter owes a request it has wrapped
AdapterKept(r) ==
    /\ r.nSuccess + r.nError <= 1
    /\ (r.p.state = "resolved") = (r.nSuccess = 1)
    /\ r.p.state = "resolved" => r.p.value = r.result
    /\ (r.p.state = "rejected") = (r.nError = 1)
    /\ r.p.state = "rejected" =>
           \/ r.p.value = MockError(r.op)
           \/ r.p.value.t = "event" /\ r.p.value.op = r.op

\* C4: the promise of every wrapped request is resolved, with the request's
\* result, exactly when its success handler has run, rejected, with the
\* error payload, exactly when its error handler has run, and pending
\* otherwise, also after an upgrade-needed event; no request has more than
\* one of the two handlers run.
C4_AdapterSettlesOnEvents ==
    \A s \in Sessions :
        /\ nw[s].status = "called" => AdapterKept(nw[s].request)
        /\ \A i \in DOMAIN call[s].reqs : AdapterKept(call[s].reqs[i])

\* an open request resolved by the success event that followed its
\* upgrade-needed event, a request of that session rejected by its error
\* event, and a mock's open request resolved at assignment
C4_Witness ==
    \E s, t \in Sessions :
        /\ nw[s].status = "called"
        /\ nw[s].request.nUpgrade = 1
        /\ nw[s].request.p.state = "resolved"
        /\ nw[s].request.p.value = DbHandle(B(s))
        /\ \E i \in DOMAIN call[s].reqs : call[s].reqs[i].p.state = "rejected"
        /\ nw[t].status = "called"
        /\ nw[t].request.isProxy
        /\ nw[t].request.p.state = "resolved"

\* C5: a session whose mock backend is configured to fail open never gets a
\* Session: new() is not resolved and, once its reactions have run, is
\* rejected with the open error; no add or getAll call is made through it,
\* no add or getAll request reaches that backend, and the backend's
\* sequence stays empty.
C5_BrokenOpen ==
    \A s \in Sessions :
        (nw[s].status = "called" /\ IsMock(B(s)) /\ ~cfg[B(s)].shouldOpen) =>
            /\ nw[s].promise.state # "resolved"
            /\ ~HasJobs(s) => nw[s].promise = [state |-> "rejected", value |-> MockError("open")]
            /\ call[s] = NoCall
            /\ nw[s].calls = 0
            /\ issued[B(s)] = <<>>
            /\ nGetAll[B(s)] = 0
            /\ items[B(s)] = <<>>

\* new() rejected by the mock's open error while the other backend is in use
C5_Witness ==
    \E s, t \in Sessions :
        /\ nw[s].status = "called"
        /\ IsMock(B(s))
        /\ ~cfg[B(s)].shouldOpen
        /\ nw[s].promise = [state |-> "rejected", value |-> MockError("open")]
        /\ call[t].op = "add"
        /\ call[t].entries # <<>>

\* what C6 says of add on a mock backend that fails add: a batch that is
\* not empty is never resolved and, once its reactions have run, is rejected
\* with the add error, yet the backend's sequence holds the whole batch
BrokenAddRejects(s) ==
    (call[s].op = "add" /\ call[s].entries # <<>>) =>
        /\ call[s].all.state # "resolved"
        /\ ~HasJobs(s) => call[s].all = [state |-> "rejected", value |-> MockError("add")]
        /\ Contains(items[B(s)], call[s].entries)

\* the getAll() that follows such an add resolves with a sequence that
\* contains the batch
GetAllShowsFailedAdd(s) ==
    /\ prev[s].entries # <<>> =>
           prev[s].promise = [state |-> "rejected", value |-> MockError("add")]
    /\ CallPromise(call[s]).state = "resolved"
    /\ IsArray(CallPromise(call[s]).value)
    /\ Contains(Deref(CallPromise(call[s]).value), prev[s].entries)

C7_BrokenGetAll ==
    \A s \in Sessions :
        (IsMock(B(s)) /\ cfg[B(s)].shouldOpen /\ cfg[B(s)].shouldAdd /\ ~cfg[B(s)].shouldGetAll) =>
            /\ (call[s].op = "add" /\ ~HasJobs(s)) =>
                   call[s].all = [state |-> "resolved", value |-> SeqVal(Keys(B(s), call[s].entries))]
            /\ prev[s].op = "add" =>
                   prev[s].promise = [state |-> "resolved", value |-> SeqVal(Keys(B(s), prev[s].entries))]
            /\ call[s].op = "getAll" =>
                   CallPromise(call[s]) = [state |-> "rejected", value |-> MockError("getAll")]
            /\ prev[s].op = "getAll" =>
                   prev[s].promise = [state |-> "rejected", value |-> MockError("getAll")]

C7_Witness ==
    \E s \in Sessions :
        /\ IsMock(B(s))
        /\ ~cfg[B(s)].shouldGetAll
        /\ prev[s].op = "add"
        /\ Len(prev[s].entries) = 2
        /\ prev[s].promise.state = "resolved"
        /\ call[s].op = "getAll"
        /\ CallPromise(call[s]).state = "rejected"

\* C8: new() calls the backend's open once and settles its promise at most
\* once, and exactly once when the open request has completed and the
\* reactions have run; when db.transaction or transaction.objectStore
\* throws (the open having succeeded) the promise is never resolved and is
\* rejected with the thrown error.
C8_NewRejectsOnThrow ==
    \A s \in Sessions :
        /\ nw[s].opens = IF nw[s].status = "called" THEN 1 ELSE 0
        /\ nw[s].settles <= 1
        /\ (nw[s].settles = 1) = Settled(nw[s].promise)
        /\ (nw[s].status = "called" /\ Done(nw[s].request) /\ ~HasJobs(s)) => nw[s].settles = 1
        /\ nw[s].thrown.t = "thrown" =>
               /\ nw[s].request.p.state = "resolved"
               /\ nw[s].promise.state # "resolved"
               /\ ~HasJobs(s) => nw[s].promise = [state |-> "rejected", value |-> nw[s].thrown]

C8_Witness ==
    \E s, t \in Sessions :
        /\ nw[s].thrown = Thrown("objectStore")
        /\ nw[s].promise = [state |-> "rejected", value |-> Thrown("objectStore")]
        /\ nw[t].promise.state = "resolved"

\* what the mock owes a request it has handed out
MockKept(r, b) ==
    /\ r.succeed = ( IF r.op = "open" THEN cfg[b].shouldOpen
                     ELSE IF r.op = "add" THEN cfg[b].shouldAdd
                     ELSE cfg[b].shouldGetAll )
    /\ r.nSuccess + r.nError = 1
    /\ r.nSuccess = (IF r.succeed THEN 1 ELSE 0)
    /\ r.succeed => r.p = [state |-> "resolved", value |-> r.result]
    /\ ~r.succeed => r.p = [state |-> "rejected", value |-> MockError(r.op)]
    /\ r.handlers = {}

\* C9: every request of the mock that the adapter has wrapped has had
\* exactly one handler called, once, by the time the wrapping returns:
\* onsuccess when its operation is configured to succeed, otherwise onerror
\* with the payload naming the operation.
C9_MockFiresOneHandler ==
    \A s \in Sessions :
        /\ (nw[s].status = "called" /\ IsMock(B(s))) => MockKept(nw[s].request, B(s))
        /\ \A i \in DOMAIN call[s].reqs : IsMock(B(s)) => MockKept(call[s].reqs[i], B(s))

C9_Witness ==
    \E s \in Sessions :
        /\ IsMock(B(s))
        /\ nw[s].request.nSuccess = 1
        /\ call[s].op = "add"
        /\ Len(call[s].reqs) = 2
        /\ \A i \in DOMAIN call[s].reqs : call[s].reqs[i].nError = 1
        /\ prev[s].op = "getAll"
        /\ prev[s].promise.state = "resolved"

\* C10: a getAll() on a mock backend configured to succeed getAll, to which
\* no insert request was ever issued, resolves with the empty sequence.
C10_FreshGetAllEmpty ==
    \A s \in Sessions :
        (call[s].op = "getAll" /\ IsMock(B(s)) /\ cfg[B(s)].shouldGetAll /\ issued[B(s)] = <<>>) =>
            /\ CallPromise(call[s]).state = "resolved"
            /\ IsArray(CallPromise(call[s]).value)
            /\ Deref(CallPromise(call[s]).value) = <<>>

C10_Witness ==
    \E s \in Sessions :
        /\ call[s].op = "getAll"
        /\ IsMock(B(s))
        /\ issued[B(s)] = <<>>
        /\ CallPromise(call[s]).state = "resolved"
        /\ Deref(CallPromise(call[s]).value) = <<>>

\* C11: the primary-key values of the entries a backend stores are pairwise
\* distinct in every reachable state, and no getAll() resolves with two
\* entries that have the same primary-key value, whatever was passed to add.
C11_PrimaryKeysDistinct ==
    /\ \A b \in Backends : DistinctKeys(b, items[b])
    /\ \A s \in Sessions :
           (call[s].op = "getAll" /\ CallPromise(call[s]).state = "resolved")
           => DistinctKeys(B(s), Deref(CallPromise(call[s]).value))

\* C12: the sequence a resolved getAll() handed to its caller does not
\* change while the caller holds it, whatever add does on the same backend
\* afterwards: it stays the sequence the backend had at the time of the call.
C12_GetAllKeepsCallTimeSequence ==
    [][ \A s \in Sessions :
            ( /\ call[s].op = "getAll"
              /\ call'[s] = call[s]
              /\ CallPromise(call[s]).state = "resolved"
              /\ IsArray(CallPromise(call[s]).value) )
            => Deref(CallPromise(call[s]).value)' = Deref(CallPromise(call[s]).value) ]_vars

\* C13: on an open request that emits upgrade-needed the schema initializer
\* runs once per upgrade-needed event, inside the event, with the request's
\* database handle (the object store exists from then on); the event leaves
\* the request's promise and new() pending with no reaction queued, and
\* new() is settled only after the success or error event that follows on
\* that request, resolved with a Session only after the success event.
C13_UpgradeBeforeSession ==
    \A s \in Sessions :
        LET r == nw[s].request
        IN  /\ nw[s].ctorCalls = r.nUpgrade
            /\ r.nUpgrade <= 1
            /\ r.nUpgrade > 0 =>
                   /\ r.isOpen
                   /\ r.result = DbHandle(B(s))
                   /\ ~Done(r) =>
                          /\ dbState[B(s)] = "ready"
                          /\ r.p.state = "pending"
                          /\ nw[s].promise.state = "pending"
                          /\ ~HasJobs(s)
                   /\ HasSession(s) => r.nSuccess = 1 /\ r.p.value = DbHandle(B(s))
                   /\ nw[s].promise.state = "rejected" => Done(r)

\* a Session obtained from an open request that went through one upgrade
C13_Witness ==
    \E s \in Sessions :
        /\ nw[s].request.nUpgrade = 1
        /\ nw[s].ctorCalls = 1
        /\ nw[s].request.nSuccess = 1
        /\ HasSession(s)

\* the handler kinds that have fired on a request
Fired(r) ==
    (IF r.nSuccess > 0 THEN {"onsuccess"} ELSE {})
    \cup (IF r.nError > 0 THEN {"onerror"} ELSE {})
    \cup (IF r.nUpgrade > 0 THEN {"onupgradeneeded"} ELSE {})

\* C14 as stated: over the lifecycle of a wrapped request exactly one of
\* onsuccess, onerror and onupgradeneeded fires: never two of them, and one
\* of them once the request has completed.
C14_ExactlyOneOfThree ==
    \A s \in Sessions :
        /\ nw[s].status = "called" =>
               /\ Cardinality(Fired(nw[s].request)) <= 1
               /\ Done(nw[s].request) => Cardinality(Fired(nw[s].request)) = 1
        /\ \A i \in DOMAIN call[s].reqs :
               /\ Cardinality(Fired(call[s].reqs[i])) <= 1
               /\ Done(call[s].reqs[i]) => Cardinality(Fired(call[s].reqs[i])) = 1

\* what holds of the handlers of one wrapped request
OneOutcome(r) ==
    /\ r.nSuccess + r.nError <= 1
    /\ r.isProxy => r.nSuccess + r.nError = 1
    /\ r.nUpgrade <= 1
    /\ r.nUpgrade > 0 => r.isOpen /\ ~r.isProxy

\* C14, amended: of onsuccess and onerror at most one fires on a wrapped
\* request, once, and one of them has fired when the request has completed
\* (a mock's request has completed when it is wrapped); onupgradeneeded
\* fires at most once, on the open request of an engine only, and in
\* addition to the success or error that follows it.
C14_OneOfSuccessAndError ==
    \A s \in Sessions :
        /\ nw[s].status = "called" => OneOutcome(nw[s].request)
        /\ \A i \in DOMAIN call[s].reqs :
               OneOutcome(call[s].reqs[i]) /\ call[s].reqs[i].nUpgrade = 0

\* an open request on which upgrade-needed and then success fired
C14_Witness ==
    \E s \in Sessions :
        /\ nw[s].status = "called"
        /\ Fired(nw[s].request) = {"onupgradeneeded", "onsuccess"}
        /\ \E i \in DOMAIN call[s].reqs : Fired(call[s].reqs[i]) = {"onerror"}

\* C15 as stated: while a request has emitted neither success nor error,
\* its promise is pending and so is the promise of the call that issued it
\* (new, add or getAll).
C15_HungRequestHangsCall ==
    \A s \in Sessions :
        /\ (nw[s].status = "called" /\ ~Done(nw[s].request)) =>
               nw[s].request.p.state = "pending" /\ nw[s].promise.state = "pending"
        /\ \A i \in DOMAIN call[s].reqs :
               ~Done(call[s].reqs[i]) =>
                   /\ call[s].reqs[i].p.state = "pending"
                   /\ CallPromise(call[s]).state = "pending"

\* C15, amended: while a request has emitted neither success nor error its
\* promise is pending; new() and getAll() are pending with it and an add is
\* not resolved, but an add is rejected by the error of a sibling request of
\* the batch although the request never completes. Nothing is issued again:
\* one open request per new(), one request per entry, one per getAll.
C15_HungRequestNeverResolves ==
    \A s \in Sessions :
        /\ nw[s].opens <= 1
        /\ (nw[s].status = "called" /\ ~Done(nw[s].request)) =>
               /\ nw[s].request.p.state = "pending"
               /\ nw[s].promise.state = "pending"
               /\ ~HasJobs(s)
        /\ call[s].op = "add" => Len(call[s].reqs) = Len(call[s].entries)
        /\ call[s].op = "getAll" => Len(call[s].reqs) = 1
        /\ \A i \in DOMAIN call[s].reqs :
               ~Done(call[s].reqs[i]) =>
                   /\ call[s].reqs[i].p.state = "pending"
                   /\ CallPromise(call[s]).state # "resolved"
                   /\ call[s].op = "getAll" => CallPromise(call[s]).state = "pending"
                   /\ CallPromise(call[s]).state = "rejected" =>
                          \E j \in DOMAIN call[s].reqs :
                              /\ j # i
                              /\ call[s].reqs[j].nError = 1
                              /\ call[s].all.value = call[s].reqs[j].p.value

\* a batch left pending by a request that has not completed, its sibling
\* having succeeded
C15_Witness ==
    \E s \in Sessions :
        /\ call[s].op = "add"
        /\ Len(call[s].reqs) = 2
        /\ ~Done(call[s].reqs[1])
        /\ call[s].reqs[2].nSuccess = 1
        /\ call[s].all.state = "pending"

\* C16: a mock backend's sequence is at every moment the concatenation, in
\* issue order, of all the entries ever passed to add on that backend,
\* whatever its toggles are: every add appends its entries at the end, and
\* nothing else (open, transaction and collection acquisition, getAll, the
\* reactions) changes, removes or reorders anything.
C16_ItemsAreAllAddsInOrder ==
    \A b \in Backends : IsMock(b) => items[b] = issued[b]

\* two sessions of one mock that fails add have each added one entry
C16_Witness ==
    \E s, t \in Sessions :
        /\ s # t
        /\ B(s) = B(t)
        /\ IsMock(B(s))
        /\ ~cfg[B(s)].shouldAdd
        /\ call[s].op = "add" /\ Len(call[s].entries) = 1
        /\ call[t].op = "add" /\ Len(call[t].entries) = 1
        /\ call[s].entries # call[t].entries
        /\ items[B(s)] = call[s].entries \o call[t].entries

\* C17: what a resolved getAll() on a mock backend holds is exactly what was
\* issued to that backend instance: it contains every batch added through
\* any Session of the same instance, and nothing that was added only through
\* Sessions of another instance, however the sessions' calls and reactions
\* interleave.
C17_InstancesIsolatedSessionsShare ==
    \A t \in Sessions :
        (IsMock(B(t)) /\ call[t].op = "getAll" /\ CallPromise(call[t]).state = "resolved") =>
            LET got == Deref(CallPromise(call[t]).value)
            IN  /\ IsArray(CallPromise(call[t]).value)
                /\ got = issued[B(t)]
                /\ \A s \in Sessions :
                       /\ (B(s) = B(t) /\ call[s].op = "add") => Contains(got, call[s].entries)
                       /\ (B(s) = B(t) /\ prev[s].op = "add") => Contains(got, prev[s].entries)
                       /\ (B(s) # B(t) /\ call[s].op = "add") =>
                              \A i \in DOMAIN call[s].entries :
                                  (\A j \in DOMAIN issued[B(t)] : issued[B(t)][j] # call[s].entries[i])
                                  => \A k \in DOMAIN got : got[k] # call[s].entries[i]

\* one session's getAll holds the batch another session added to the same
\* mock instance, the other instance's sequence staying empty
C17_Witness ==
    \E s, t \in Sessions :
        /\ s # t
        /\ B(s) = B(t)
        /\ IsMock(B(t))
        /\ call[s].op = "add"
        /\ Len(call[s].entries) = 2
        /\ call[t].op = "getAll"
        /\ CallPromise(call[t]).state = "resolved"
        /\ Deref(CallPromise(call[t]).value) = call[s].entries
        /\ \A b \in Backends \ {B(t)} : items[b] = <<>>

\* the promise add([]) returns
EmptyBatchResolved == [state |-> "resolved", value |-> SeqVal(<<>>)]

\* C18: add([]) issues no insert request and queues no reaction, leaves the
\* backend's sequence as it was, and returns a promise that is resolved with
\* the empty sequence, whatever the backend is and also when the mock's add
\* is configured to fail.
C18_EmptyAdd ==
    /\ [](\A s \in Sessions :
              /\ (call[s].op = "add" /\ call[s].entries = <<>>) =>
                     call[s].reqs = <<>> /\ call[s].all = EmptyBatchResolved
              /\ (prev[s].op = "add" /\ prev[s].entries = <<>>) =>
                     prev[s].promise = EmptyBatchResolved)
    /\ [][ \A s \in Sessions :
               ( /\ nw'[s].calls = nw[s].calls + 1
                 /\ call'[s].op = "add"
                 /\ call'[s].entries = <<>> )
               => /\ items' = items
                  /\ issued' = issued
                  /\ jobs' = jobs
                  /\ nGetAll' = nGetAll ]_vars

\* add([]) resolved on a mock that fails add, after a batch that was rejected
C18_Witness ==
    \E s \in Sessions :
        /\ IsMock(B(s))
        /\ ~cfg[B(s)].shouldAdd
        /\ prev[s].op = "add"
        /\ prev[s].entries # <<>>
        /\ prev[s].promise.state = "rejected"
        /\ call[s].op = "add"
        /\ call[s].entries = <<>>
        /\ call[s].all = EmptyBatchResolved
        /\ items[B(s)] = prev[s].entries

\* the upgrade-needed handler is on open requests of an engine only
UpgradeHandlerOnlyOnOpen(r) == "onupgradeneeded" \in r.handlers => r.isOpen /\ ~r.isProxy

\* C19: the upgrade-needed handler is attached to no request but the open
\* request of an engine that is not the mock; a mock's open request is not
\* such a request, keeps no handler and never has upgrade-needed fire, and
\* the schema initializer passed to new() is not invoked for a mock
\* backend, whatever its toggles are.
C19_MockNeverUpgrades ==
    \A s \in Sessions :
        /\ nw[s].status = "called" => UpgradeHandlerOnlyOnOpen(nw[s].request)
        /\ \A i \in DOMAIN call[s].reqs :
               UpgradeHandlerOnlyOnOpen(call[s].reqs[i]) /\ call[s].reqs[i].nUpgrade = 0
        /\ (nw[s].status = "called" /\ IsMock(B(s))) =>
               /\ nw[s].request.isProxy
               /\ ~nw[s].request.isOpen
               /\ nw[s].request.handlers = {}
               /\ nw[s].request.nUpgrade = 0
               /\ nw[s].ctorCalls = 0

\* a Session of a mock that fails add and getAll, in use, the initializer
\* never having run
C19_Witness ==
    \E s \in Sessions :
        /\ IsMock(B(s))
        /\ ~cfg[B(s)].shouldAdd
        /\ ~cfg[B(s)].shouldGetAll
        /\ HasSession(s)
        /\ nw[s].calls = 2
        /\ nw[s].ctorCalls = 0
        /\ dbState[B(s)] = "ready"

\* C20: against a mock backend, whatever its toggles are, a new() that has
\* been called is eventually settled, and so is every add and getAll call
\* that has been made.
C20_MockCallsSettle ==
    \A s \in Sessions :
        /\ (nw[s].status = "called" /\ IsMock(B(s))) ~> Settled(nw[s].promise)
        /\ (nw[s].status = "called" /\ IsMock(B(s)) /\ call[s].op # "none")
           ~> Settled(CallPromise(call[s]))

\* on a mock: new() settled, a getAll settled and a batch of two settled
C20_Witness ==
    \E s \in Sessions :
        /\ IsMock(B(s))
        /\ Settled(nw[s].promise)
        /\ prev[s].op = "getAll"
        /\ Settled(prev[s].promise)
        /\ call[s].op = "add"
        /\ Len(call[s].entries) = 2
        /\ Settled(call[s].all)
        /\ ~HasJobs(s)

====
